---- MODULE Spec2Model ----
(***************************************************************************)
(* A model of the sshpool connection/session pool (src/pool.go).           *)
(*                                                                         *)
(* Goroutines calling Pool.Get / Pool.GetSFTP are the processes Procs.     *)
(* Each step below is one atomic region of the Go code: a critical section *)
(* under dialing_mu or clients_mu, one channel operation, or one call into *)
(* the ssh library (Dial, NewSession, sftp.NewClient, Client.Close).       *)
(* A `chan struct{}` used as a semaphore is modelled by the number of      *)
(* tokens in its buffer; a dial-gate channel is identified by the session  *)
(* id of the call that made it (a call installs at most one gate).         *)
(***************************************************************************)
EXTENDS Naturals, Integers, Sequences, FiniteSets, TLC

\* ---------------------------------------------------------------- bounds
\* number of goroutines that call Get/GetSFTP concurrently
NProcs == 2
\* total number of calls to Get/GetSFTP made in one behaviour
MaxCalls == 3
\* total number of calls in a behaviour of the dial race: one host, one
\* connection per host, one session per connection
RaceCalls == 4
\* number of calls to Pool.Close made in one behaviour
MaxCloses == 1
\* number of calls to Pool.Close in a behaviour of the pool's shutdown
LifeCloses == 2
\* total number of calls in a behaviour checked for progress
GateCalls == 2
\* PoolConfig.MaxSessions is drawn from 1..MaxSessionsCfg
MaxSessionsCfg == 3
\* PoolConfig.MaxConnections is drawn from 1..MaxConnectionsCfg
MaxConnectionsCfg == 2

\* ------------------------------------------------------ program constants
DefaultMaxSessions == 10
DefaultMaxConnections == 10

\* Go's zero value: a nil channel, a nil *client, sessionid 0
Nil == 0
\* the zero value of sync.Mutex
Unlocked == "unlocked"

Hosts == {"h1", "h2"}
Procs == 1..NProcs
\* the goroutine that calls Pool.Close, as the holder of clients_mu
Closer == "Pool.Close"

VARIABLES
    limits,         \* the bounds of this behaviour: [procs, calls, hosts, closes], and
                    \*   order: whether it records the histories ticket and retids
    poolconfig,     \* Pool.poolconfig: [MaxSessions, MaxConnections]
    clients,        \* Pool.clients: host -> sequence of transports (indices into conns)
    nextclientid,   \* Pool.nextclientid
    nextsessionid,  \* Pool.nextsessionid
    clients_mu,     \* Pool.clients_mu: Nil, or the goroutine holding it
    dialing,        \* Pool.dialing: host -> Nil or the gate channel
    gateopen,       \* the gate channels that are made and not yet closed
    conns,          \* every client struct ever built, in order of creation:
                    \*   [host, sessions (tokens in the channel), cap, clientid, closed]
    releasing,      \* per transport: goroutines started by Put that have not yet received
    handles,        \* per transport: the Session / SFTPSession values returned and not
                    \*   yet Put, counted as [open, closed] (closed: session.Close() was
                    \*   called on it)
    pc,             \* per goroutine: where it is in Get / get_client
    host,           \* per goroutine: the host argument
    dialchan,       \* per goroutine: get_client's dialchan
    sessionid,      \* per goroutine: get_client's sessionid
    cl,             \* per goroutine: noblock / block[chosen] / c, the client it returns
    block,          \* per goroutine: get_client's block snapshot
    err,            \* per goroutine: ssh.Dial returned an error
    cpc,            \* Pool.Close: "idle" or "locked"
    ncloses,        \* history: calls to Pool.Close so far
    entered,        \* history: per host, calls to Get/GetSFTP so far
    dials,          \* history: per host, calls to ssh.Dial so far
    sent,           \* history: per goroutine, the transports its current call sent a token to
    sequential,     \* history: every call so far was entered with no other call in
                    \*   flight and no handle outstanding, succeeded, and Close was not called
    ticket,         \* history: per goroutine, the position of its current call in the
                    \*   order in which the calls entered Get/GetSFTP (0: no call)
    retids          \* history: per position in that order, the session id the call
                    \*   put in the handle it returned (0: no handle returned)

vars == <<limits, poolconfig, clients, nextclientid, nextsessionid, clients_mu, dialing,
          gateopen, conns, releasing, handles, pc, host, dialchan, sessionid, cl,
          block, err, cpc, ncloses, entered, dials, sent, sequential, ticket, retids>>

poolvars == <<limits, poolconfig, clients, nextclientid, nextsessionid, clients_mu, dialing,
              gateopen, conns, releasing, handles>>
closevars == <<cpc, ncloses>>

\* ------------------------------------------------------------- helpers
\* get_client's maxc: MaxConnections, or the default when left at 0
MaxC == IF poolconfig.MaxConnections = 0 THEN DefaultMaxConnections
        ELSE poolconfig.MaxConnections

\* get_client's max: MaxSessions, or the default when left at 0
MaxS == IF poolconfig.MaxSessions = 0 THEN DefaultMaxSessions
        ELSE poolconfig.MaxSessions

\* the elements of a sequence
Range(s) == {s[i] : i \in 1..Len(s)}

\* every client struct built so far
Transports == 1..Len(conns)

\* a send on c.sessions, blocking or not, can proceed: the buffer has room
CanSend(cn, t) == cn[t].sessions < cn[t].cap

\* the send: one more token in the buffer of t's channel
Send(cn, t) == [cn EXCEPT ![t].sessions = @ + 1]

\* the receive `_ = <-client.sessions`: one token less
Recv(cn, t) == [cn EXCEPT ![t].sessions = @ - 1]

\* the loop of get_client never entered: no client is tried
ScanFrom_NoTry(cs, i, cn, nb) == [conns |-> cn, noblock |-> nb]

\* the for/select loop of get_client over p.clients[host], from position i on.
\* `break` inside `select` leaves the select statement only, so the loop goes
\* on to the next client after a successful send.
RECURSIVE ScanFrom(_, _, _, _)
ScanFrom(cs, i, cn, nb) ==
    IF i > Len(cs) THEN [conns |-> cn, noblock |-> nb]
    ELSE IF CanSend(cn, cs[i])
         THEN ScanFrom(cs, i + 1, Send(cn, cs[i]), cs[i])
         ELSE ScanFrom(cs, i + 1, cn, nb)

\* the snapshot taken under the lock: the host's whole list when no send went
\* through and the host has exactly maxc clients, else nil
Snapshot(cs, nb) == IF nb = Nil /\ Len(cs) = MaxC THEN cs ELSE <<>>

\* a goroutine that is not inside Get/GetSFTP
Idle(p) == pc[p] = "idle"

\* the number of calls to Get/GetSFTP so far, over all hosts
RECURSIVE SumOver(_, _)
SumOver(f, S) == IF S = {} THEN 0
                 ELSE LET x == CHOOSE y \in S : TRUE IN f[x] + SumOver(f, S \ {x})
Calls == SumOver(entered, Hosts)

TypeOK ==
    /\ poolconfig \in [MaxSessions : 0..MaxSessionsCfg, MaxConnections : 0..MaxConnectionsCfg]
    /\ clients \in [Hosts -> Seq(Transports)]
    /\ nextclientid \in Nat /\ nextsessionid \in Nat
    /\ clients_mu \in {Unlocked, Closer}
    /\ dialing \in [Hosts -> Nat]
    /\ gateopen \subseteq Nat
    /\ \A t \in Transports : conns[t].sessions \in 0..conns[t].cap
    /\ Len(releasing) = Len(conns) /\ Len(handles) = Len(conns)
    /\ pc \in [Procs -> {"idle", "retry", "waitgate", "scan", "block", "install",
                         "dial", "register", "relgate", "open", "openerr"}]
    /\ host \in [Procs -> Hosts]
    /\ cpc \in {"idle", "locked"}

\* ---------------------------------------------------------------- Init
\* New(): empty maps, zero counters; the configuration is the caller's.
New ==
    /\ clients = [h \in Hosts |-> <<>>]
    /\ nextclientid = 0
    /\ nextsessionid = 0
    /\ clients_mu = Unlocked
    /\ dialing = [h \in Hosts |-> Nil]
    /\ gateopen = {}
    /\ conns = <<>>
    /\ releasing = <<>>
    /\ handles = <<>>
    /\ pc = [p \in Procs |-> "idle"]
    /\ host = [p \in Procs |-> CHOOSE h \in Hosts : TRUE]
    /\ dialchan = [p \in Procs |-> Nil]
    /\ sessionid = [p \in Procs |-> 0]
    /\ cl = [p \in Procs |-> Nil]
    /\ block = [p \in Procs |-> <<>>]
    /\ err = [p \in Procs |-> FALSE]
    /\ cpc = "idle"
    /\ ncloses = 0
    /\ entered = [h \in Hosts |-> 0]
    /\ dials = [h \in Hosts |-> 0]
    /\ sent = [p \in Procs |-> {}]
    /\ sequential = TRUE
    /\ ticket = [p \in Procs |-> 0]
    /\ retids = [i \in 1..limits.calls |-> 0]

\* any configuration, NProcs goroutines
Init ==
    /\ limits = [procs |-> NProcs, calls |-> MaxCalls, hosts |-> Hosts,
                 closes |-> MaxCloses, order |-> FALSE]
    /\ poolconfig \in [MaxSessions : 1..MaxSessionsCfg, MaxConnections : 1..MaxConnectionsCfg]
    /\ New

\* the dial race: one host, MaxConnections = 1, MaxSessions = 1, more calls
InitRace ==
    /\ limits = [procs |-> NProcs, calls |-> RaceCalls, hosts |-> {"h1"},
                 closes |-> MaxCloses, order |-> FALSE]
    /\ poolconfig = [MaxSessions |-> 1, MaxConnections |-> 1]
    /\ New

\* the pool's shutdown: one host, any configuration, Pool.Close called again
InitLife ==
    /\ limits = [procs |-> NProcs, calls |-> MaxCalls, hosts |-> {"h1"},
                 closes |-> LifeCloses, order |-> FALSE]
    /\ poolconfig \in [MaxSessions : 1..MaxSessionsCfg, MaxConnections : 1..MaxConnectionsCfg]
    /\ New

\* the order of calls and of session ids: one host, any configuration, the
\* order in which the calls entered and the ids they returned recorded
InitOrder ==
    /\ limits = [procs |-> NProcs, calls |-> MaxCalls, hosts |-> {"h1"},
                 closes |-> MaxCloses, order |-> TRUE]
    /\ poolconfig \in [MaxSessions : 1..MaxSessionsCfg, MaxConnections : 1..MaxConnectionsCfg]
    /\ New

\* progress past the dial gate: one host, any configuration, fewer calls
InitGate ==
    /\ limits = [procs |-> NProcs, calls |-> GateCalls, hosts |-> {"h1"},
                 closes |-> MaxCloses, order |-> FALSE]
    /\ poolconfig \in [MaxSessions : 1..MaxSessionsCfg, MaxConnections : 1..MaxConnectionsCfg]
    /\ New

\* ------------------------------------------------------------- actions
\* retry: `dialchan = p.dialing[host]` under dialing_mu, and the test that follows
GateRead(p, h) ==
    /\ dialchan' = [dialchan EXCEPT ![p] = dialing[h]]
    /\ pc' = [pc EXCEPT ![p] = IF dialing[h] # Nil THEN "waitgate" ELSE "scan"]

\* A goroutine calls Get(h) or GetSFTP(h): both start with get_client(h), which
\* first reads the host's dial gate. Idle goroutines are interchangeable, so the
\* lowest one makes the call; so are hosts never called before, so "h1" is
\* the first host called.
Enter(p, h) ==
    /\ Idle(p)
    /\ \A q \in Procs : Idle(q) => p <= q
    /\ h \in limits.hosts
    /\ Calls = 0 => h = "h1"
    /\ p <= limits.procs
    /\ Calls < limits.calls
    /\ GateRead(p, h)
    /\ host' = [host EXCEPT ![p] = h]
    /\ entered' = [entered EXCEPT ![h] = @ + 1]
    /\ sequential' = (sequential /\ \A q \in Procs : Idle(q)
                                 /\ \A t \in Transports : handles[t].open + handles[t].closed = 0)
    /\ UNCHANGED <<poolvars, closevars, sessionid, cl, block, err, dials, sent>>
    /\ ticket' = [ticket EXCEPT ![p] = IF limits.order THEN Calls + 1 ELSE 0]
    /\ UNCHANGED retids

\* `goto retry` after a lost race: read the gate again
Retry(p) ==
    /\ pc[p] = "retry"
    /\ GateRead(p, host[p])
    /\ UNCHANGED <<poolvars, closevars, host, sessionid, cl, block, err, entered,
                   dials, sent, sequential>>
    /\ UNCHANGED <<ticket, retids>>

\* `<-dialchan`: returns once the channel is closed
WaitGate(p) ==
    /\ pc[p] = "waitgate"
    /\ dialchan[p] \notin gateopen
    /\ pc' = [pc EXCEPT ![p] = "scan"]
    /\ UNCHANGED <<poolvars, closevars, host, dialchan, sessionid, cl, block, err,
                   entered, dials, sent, sequential>>
    /\ UNCHANGED <<ticket, retids>>

\* Scan without `p.nextsessionid++`: the id is taken and the counter left as it is
Scan_NoIncrement(p) ==
    /\ pc[p] = "scan"
    /\ clients_mu = Unlocked
    /\ LET cs == clients[host[p]]
           r == ScanFrom(cs, 1, conns, Nil)
           blk == Snapshot(cs, r.noblock)
       IN /\ nextsessionid' = nextsessionid
          /\ sessionid' = [sessionid EXCEPT ![p] = IF @ = 0 THEN nextsessionid + 1 ELSE @]
          /\ conns' = r.conns
          /\ cl' = [cl EXCEPT ![p] = r.noblock]
          /\ block' = [block EXCEPT ![p] = blk]
          /\ sent' = [sent EXCEPT ![p] =
                         {t \in Range(cs) : r.conns[t].sessions # conns[t].sessions}]
          /\ pc' = [pc EXCEPT ![p] = IF r.noblock # Nil THEN "open"
                                     ELSE IF blk # <<>> THEN "block" ELSE "install"]
    /\ UNCHANGED <<limits, poolconfig, clients, nextclientid, clients_mu, dialing, gateopen,
                   releasing, handles, closevars, host, dialchan, err, entered, dials,
                   sequential>>
    /\ UNCHANGED <<ticket, retids>>

\* the critical section under clients_mu: assign the session id, try every
\* client of the host, snapshot the list when none had room and the host is at
\* maxc; then the three-way branch that follows the unlock.
Scan(p) ==
    /\ pc[p] = "scan"
    /\ clients_mu = Unlocked
    /\ LET cs == clients[host[p]]
           r == ScanFrom(cs, 1, conns, Nil)
           blk == Snapshot(cs, r.noblock)
       IN /\ nextsessionid' = IF sessionid[p] = 0 THEN nextsessionid + 1 ELSE nextsessionid
          /\ sessionid' = [sessionid EXCEPT ![p] = IF @ = 0 THEN nextsessionid + 1 ELSE @]
          /\ conns' = r.conns
          /\ cl' = [cl EXCEPT ![p] = r.noblock]
          /\ block' = [block EXCEPT ![p] = blk]
          /\ sent' = [sent EXCEPT ![p] =
                         {t \in Range(cs) : r.conns[t].sessions # conns[t].sessions}]
          /\ pc' = [pc EXCEPT ![p] = IF r.noblock # Nil THEN "open"
                                     ELSE IF blk # <<>> THEN "block" ELSE "install"]
    /\ UNCHANGED <<limits, poolconfig, clients, nextclientid, clients_mu, dialing, gateopen,
                   releasing, handles, closevars, host, dialchan, err, entered, dials,
                   sequential>>
    /\ UNCHANGED <<ticket, retids>>

\* `block[0].sessions <- struct{}{}`, or reflect.Select over the snapshot: the
\* send goes to any snapshotted client whose channel has room.
BlockSend(p) ==
    /\ pc[p] = "block"
    /\ \E i \in 1..Len(block[p]) :
          /\ CanSend(conns, block[p][i])
          /\ conns' = Send(conns, block[p][i])
          /\ cl' = [cl EXCEPT ![p] = block[p][i]]
          /\ sent' = [sent EXCEPT ![p] = @ \cup {block[p][i]}]
    /\ pc' = [pc EXCEPT ![p] = "open"]
    /\ block' = [block EXCEPT ![p] = <<>>]
    /\ UNCHANGED <<limits, poolconfig, clients, nextclientid, nextsessionid, clients_mu,
                   dialing, gateopen, releasing, handles, closevars, host, dialchan,
                   sessionid, err, entered, dials, sequential>>
    /\ UNCHANGED <<ticket, retids>>

\* InstallGate without the test of p.dialing[host]: the gate is overwritten
InstallGate_NoTest(p) ==
    /\ pc[p] = "install"
    /\ dialing' = [dialing EXCEPT ![host[p]] = sessionid[p]]
    /\ gateopen' = gateopen \cup {sessionid[p]}
    /\ dialchan' = [dialchan EXCEPT ![p] = sessionid[p]]
    /\ pc' = [pc EXCEPT ![p] = "dial"]
    /\ UNCHANGED <<limits, poolconfig, clients, nextclientid, nextsessionid, clients_mu,
                   conns, releasing, handles, closevars, host, sessionid, cl, block,
                   err, entered, dials, sent, sequential>>
    /\ UNCHANGED <<ticket, retids>>

\* make the gate and install it under dialing_mu unless another call's gate is
\* there; the loser closes its own channel and goes back to retry.
InstallGate(p) ==
    /\ pc[p] = "install"
    /\ IF dialing[host[p]] # Nil
       THEN /\ pc' = [pc EXCEPT ![p] = "retry"]
            /\ dialchan' = [dialchan EXCEPT ![p] = Nil]
            /\ UNCHANGED <<dialing, gateopen>>
       ELSE /\ dialing' = [dialing EXCEPT ![host[p]] = sessionid[p]]
            /\ gateopen' = gateopen \cup {sessionid[p]}
            /\ dialchan' = [dialchan EXCEPT ![p] = sessionid[p]]
            /\ pc' = [pc EXCEPT ![p] = "dial"]
    /\ UNCHANGED <<limits, poolconfig, clients, nextclientid, nextsessionid, clients_mu,
                   conns, releasing, handles, closevars, host, sessionid, cl, block,
                   err, entered, dials, sent, sequential>>
    /\ UNCHANGED <<ticket, retids>>

\* DialOk without `c.sessions <- struct{}{}`: the first session is not reserved
DialOk_NoReserve(p) ==
    /\ pc[p] = "dial"
    /\ conns' = Append(conns, [host |-> host[p], sessions |-> 0, cap |-> MaxS,
                               clientid |-> 0, closed |-> FALSE])
    /\ releasing' = Append(releasing, 0)
    /\ handles' = Append(handles, [open |-> 0, closed |-> 0])
    /\ cl' = [cl EXCEPT ![p] = Len(conns) + 1]
    /\ sent' = [sent EXCEPT ![p] = @ \cup {Len(conns) + 1}]
    /\ dials' = [dials EXCEPT ![host[p]] = @ + 1]
    /\ pc' = [pc EXCEPT ![p] = "register"]
    /\ UNCHANGED <<limits, poolconfig, clients, nextclientid, nextsessionid, clients_mu,
                   dialing, gateopen, closevars, host, dialchan, sessionid, block,
                   err, entered, sequential>>
    /\ UNCHANGED <<ticket, retids>>

\* DialOk with the gate released as soon as ssh.Dial returns, before the client
\* is appended to p.clients[host]
DialOk_ReleasesGate(p) ==
    /\ pc[p] = "dial"
    /\ conns' = Append(conns, [host |-> host[p], sessions |-> 1, cap |-> MaxS,
                               clientid |-> 0, closed |-> FALSE])
    /\ releasing' = Append(releasing, 0)
    /\ handles' = Append(handles, [open |-> 0, closed |-> 0])
    /\ cl' = [cl EXCEPT ![p] = Len(conns) + 1]
    /\ sent' = [sent EXCEPT ![p] = @ \cup {Len(conns) + 1}]
    /\ dials' = [dials EXCEPT ![host[p]] = @ + 1]
    /\ pc' = [pc EXCEPT ![p] = "register"]
    /\ dialing' = [dialing EXCEPT ![host[p]] = Nil]
    /\ gateopen' = gateopen \ {dialchan[p]}
    /\ UNCHANGED <<limits, poolconfig, clients, nextclientid, nextsessionid, clients_mu,
                   closevars, host, dialchan, sessionid, block, err, entered, sequential>>
    /\ UNCHANGED <<ticket, retids>>

\* ssh.Dial succeeds: build the client with a channel of capacity max and
\* reserve the first session on it.
DialOk(p) ==
    /\ pc[p] = "dial"
    /\ conns' = Append(conns, [host |-> host[p], sessions |-> 1, cap |-> MaxS,
                               clientid |-> 0, closed |-> FALSE])
    /\ releasing' = Append(releasing, 0)
    /\ handles' = Append(handles, [open |-> 0, closed |-> 0])
    /\ cl' = [cl EXCEPT ![p] = Len(conns) + 1]
    /\ sent' = [sent EXCEPT ![p] = @ \cup {Len(conns) + 1}]
    /\ dials' = [dials EXCEPT ![host[p]] = @ + 1]
    /\ pc' = [pc EXCEPT ![p] = "register"]
    /\ UNCHANGED <<limits, poolconfig, clients, nextclientid, nextsessionid, clients_mu,
                   dialing, gateopen, closevars, host, dialchan, sessionid, block,
                   err, entered, sequential>>
    /\ UNCHANGED <<ticket, retids>>

\* ssh.Dial fails: get_client returns the error; the deferred gate release follows
DialFail(p) ==
    /\ pc[p] = "dial"
    /\ err' = [err EXCEPT ![p] = TRUE]
    /\ dials' = [dials EXCEPT ![host[p]] = @ + 1]
    /\ pc' = [pc EXCEPT ![p] = "relgate"]
    /\ UNCHANGED <<poolvars, closevars, host, dialchan, sessionid, cl, block, entered,
                   sent, sequential>>
    /\ UNCHANGED <<ticket, retids>>

\* under clients_mu: take the next client id and append the client to the host's list
Register(p) ==
    /\ pc[p] = "register"
    /\ clients_mu = Unlocked
    /\ nextclientid' = nextclientid + 1
    /\ conns' = [conns EXCEPT ![cl[p]].clientid = nextclientid + 1]
    /\ clients' = [clients EXCEPT ![host[p]] = Append(@, cl[p])]
    /\ pc' = [pc EXCEPT ![p] = "relgate"]
    /\ UNCHANGED <<limits, poolconfig, nextsessionid, clients_mu, dialing, gateopen, releasing,
                   handles, closevars, host, dialchan, sessionid, cl, block, err,
                   entered, dials, sent, sequential>>
    /\ UNCHANGED <<ticket, retids>>

\* ReleaseGate with the gate released on the success path only: after a failed
\* dial the entry stays in p.dialing and the channel stays open
ReleaseGate_OnSuccessOnly(p) ==
    /\ pc[p] = "relgate"
    /\ dialchan' = [dialchan EXCEPT ![p] = Nil]
    /\ IF err[p]
       THEN /\ pc' = [pc EXCEPT ![p] = "idle"]
            /\ sessionid' = [sessionid EXCEPT ![p] = 0]
            /\ err' = [err EXCEPT ![p] = FALSE]
            /\ sent' = [sent EXCEPT ![p] = {}]
            /\ sequential' = FALSE
            /\ UNCHANGED <<dialing, gateopen>>
       ELSE /\ pc' = [pc EXCEPT ![p] = "open"]
            /\ dialing' = [dialing EXCEPT ![host[p]] = Nil]
            /\ gateopen' = gateopen \ {dialchan[p]}
            /\ UNCHANGED <<sessionid, err, sent, sequential>>
    /\ UNCHANGED <<limits, poolconfig, clients, nextclientid, nextsessionid, clients_mu,
                   conns, releasing, handles, closevars, host, cl, block, entered, dials>>
    /\ ticket' = [ticket EXCEPT ![p] = IF err[p] THEN 0 ELSE @]
    /\ UNCHANGED retids

\* ReleaseGate without `close(dialchan)`: the entry is deleted, the channel stays open
ReleaseGate_NoClose(p) ==
    /\ pc[p] = "relgate"
    /\ dialing' = [dialing EXCEPT ![host[p]] = Nil]
    /\ dialchan' = [dialchan EXCEPT ![p] = Nil]
    /\ IF err[p]
       THEN /\ pc' = [pc EXCEPT ![p] = "idle"]
            /\ sessionid' = [sessionid EXCEPT ![p] = 0]
            /\ err' = [err EXCEPT ![p] = FALSE]
            /\ sent' = [sent EXCEPT ![p] = {}]
            /\ sequential' = FALSE
       ELSE /\ pc' = [pc EXCEPT ![p] = "open"]
            /\ UNCHANGED <<sessionid, err, sent, sequential>>
    /\ UNCHANGED <<limits, poolconfig, clients, nextclientid, nextsessionid, clients_mu,
                   gateopen, conns, releasing, handles, closevars, host, cl, block,
                   entered, dials>>
    /\ ticket' = [ticket EXCEPT ![p] = IF err[p] THEN 0 ELSE @]
    /\ UNCHANGED retids

\* the deferred function: delete(p.dialing, host) under dialing_mu, then
\* close(dialchan). Closing only lets the waiters go on, each in a step of its
\* own, so the two statements are taken as one step. get_client has then
\* returned, and on a dial error Get/GetSFTP returns it at once.
ReleaseGate(p) ==
    /\ pc[p] = "relgate"
    /\ dialing' = [dialing EXCEPT ![host[p]] = Nil]
    /\ gateopen' = gateopen \ {dialchan[p]}
    /\ dialchan' = [dialchan EXCEPT ![p] = Nil]
    /\ IF err[p]
       THEN /\ pc' = [pc EXCEPT ![p] = "idle"]
            /\ sessionid' = [sessionid EXCEPT ![p] = 0]
            /\ err' = [err EXCEPT ![p] = FALSE]
            /\ sent' = [sent EXCEPT ![p] = {}]
            /\ sequential' = FALSE
       ELSE /\ pc' = [pc EXCEPT ![p] = "open"]
            /\ UNCHANGED <<sessionid, err, sent, sequential>>
    /\ UNCHANGED <<limits, poolconfig, clients, nextclientid, nextsessionid, clients_mu,
                   conns, releasing, handles, closevars, host, cl, block, entered, dials>>
    /\ ticket' = [ticket EXCEPT ![p] = IF err[p] THEN 0 ELSE @]
    /\ UNCHANGED retids

\* what Get and GetSFTP do with the client get_client returned: open the
\* session on it and return it wrapped in a handle, or see the open fail.
\* A transport that Pool.Close has closed opens no session.
OpenOn(p, ok) ==
    /\ pc[p] = "open"
    /\ IF ok
       THEN /\ ~conns[cl[p]].closed
            /\ handles' = [handles EXCEPT ![cl[p]].open = @ + 1]
            /\ pc' = [pc EXCEPT ![p] = "idle"]
            /\ sessionid' = [sessionid EXCEPT ![p] = 0]
            /\ cl' = [cl EXCEPT ![p] = Nil]
            /\ sent' = [sent EXCEPT ![p] = {}]
            /\ ticket' = [ticket EXCEPT ![p] = 0]
            /\ retids' = IF limits.order THEN [retids EXCEPT ![ticket[p]] = sessionid[p]]
                       ELSE retids
       ELSE /\ pc' = [pc EXCEPT ![p] = "openerr"]
            /\ UNCHANGED <<handles, sessionid, cl, sent, ticket, retids>>
    /\ UNCHANGED <<limits, poolconfig, clients, nextclientid, nextsessionid, clients_mu,
                   dialing, gateopen, conns, releasing, closevars, host, dialchan,
                   block, err, entered, dials, sequential>>

\* Pool.Get after get_client: client.Client.NewSession()
Get(p) == \E ok \in BOOLEAN : OpenOn(p, ok)

\* Pool.GetSFTP after get_client: sftp.NewClient(client.Client)
GetSFTP(p) == \E ok \in BOOLEAN : OpenOn(p, ok)

\* OpenErr without `_ = <-client.sessions`: the error is returned at once
OpenErr_NoRecv(p) ==
    /\ pc[p] = "openerr"
    /\ pc' = [pc EXCEPT ![p] = "idle"]
    /\ sessionid' = [sessionid EXCEPT ![p] = 0]
    /\ cl' = [cl EXCEPT ![p] = Nil]
    /\ sent' = [sent EXCEPT ![p] = {}]
    /\ sequential' = FALSE
    /\ UNCHANGED <<limits, poolconfig, clients, nextclientid, nextsessionid, clients_mu,
                   dialing, gateopen, conns, releasing, handles, closevars, host,
                   dialchan, block, err, entered, dials>>
    /\ ticket' = [ticket EXCEPT ![p] = 0]
    /\ UNCHANGED retids

\* the error path of Get and GetSFTP: `_ = <-client.sessions`, return nil, err
OpenErr(p) ==
    /\ pc[p] = "openerr"
    /\ conns[cl[p]].sessions > 0
    /\ conns' = Recv(conns, cl[p])
    /\ pc' = [pc EXCEPT ![p] = "idle"]
    /\ sessionid' = [sessionid EXCEPT ![p] = 0]
    /\ cl' = [cl EXCEPT ![p] = Nil]
    /\ sent' = [sent EXCEPT ![p] = {}]
    /\ sequential' = FALSE
    /\ UNCHANGED <<limits, poolconfig, clients, nextclientid, nextsessionid, clients_mu,
                   dialing, gateopen, releasing, handles, closevars, host, dialchan,
                   block, err, entered, dials>>
    /\ ticket' = [ticket EXCEPT ![p] = 0]
    /\ UNCHANGED retids

\* PutHandle on a handle the caller keeps: the same handle can be Put again
PutHandle_KeepsHandle(t, f) ==
    /\ handles[t][f] > 0
    /\ releasing' = [releasing EXCEPT ![t] = @ + 1]
    /\ UNCHANGED <<limits, poolconfig, clients, nextclientid, nextsessionid, clients_mu,
                   dialing, gateopen, conns, handles, closevars, pc, host, dialchan,
                   sessionid, cl, block, err, entered, dials, sent, sequential>>
    /\ UNCHANGED <<ticket, retids>>

\* Put on a handle of transport t, its session closed or not: the caller gives
\* the handle up and a goroutine is started that will receive from the client's
\* channel after SessionCloseDelay.
PutHandle(t, f) ==
    /\ handles[t][f] > 0
    /\ handles' = [handles EXCEPT ![t][f] = @ - 1]
    /\ releasing' = [releasing EXCEPT ![t] = @ + 1]
    /\ UNCHANGED <<limits, poolconfig, clients, nextclientid, nextsessionid, clients_mu,
                   dialing, gateopen, conns, closevars, pc, host, dialchan, sessionid,
                   cl, block, err, entered, dials, sent, sequential>>
    /\ UNCHANGED <<ticket, retids>>

\* Session.Put
SessionPut(t) == \E f \in {"open", "closed"} : PutHandle(t, f)

\* SFTPSession.Put
SFTPSessionPut(t) == PutHandle(t, "open")

\* the goroutine started by Put, after its sleep: `_ = <-s.client.sessions`
Release(t) ==
    /\ releasing[t] > 0
    /\ conns[t].sessions > 0
    /\ conns' = Recv(conns, t)
    /\ releasing' = [releasing EXCEPT ![t] = @ - 1]
    /\ UNCHANGED <<limits, poolconfig, clients, nextclientid, nextsessionid, clients_mu,
                   dialing, gateopen, handles, closevars, pc, host, dialchan, sessionid,
                   cl, block, err, entered, dials, sent, sequential>>
    /\ UNCHANGED <<ticket, retids>>

\* session.Close() on a handle from Get: Session has no Close of its own, the
\* call is the embedded ssh.Session's and closes the SSH channel only.
SessionClose(t) ==
    /\ handles[t].open > 0
    /\ handles' = [handles EXCEPT ![t].open = @ - 1, ![t].closed = @ + 1]
    /\ UNCHANGED <<limits, poolconfig, clients, nextclientid, nextsessionid, clients_mu,
                   dialing, gateopen, conns, releasing, closevars, pc, host, dialchan,
                   sessionid, cl, block, err, entered, dials, sent, sequential>>
    /\ UNCHANGED <<ticket, retids>>

\* Tunnel.forward after get_client: client.Dial to the remote end and the two
\* copies, whatever their outcome, and then the deferred client.Close(), which is
\* the embedded ssh.Client's: it closes the transport get_client returned. The
\* slot get_client reserved is not received back.
forward(p) ==
    /\ pc[p] = "open"
    /\ conns' = [conns EXCEPT ![cl[p]].closed = TRUE]
    /\ pc' = [pc EXCEPT ![p] = "idle"]
    /\ sessionid' = [sessionid EXCEPT ![p] = 0]
    /\ cl' = [cl EXCEPT ![p] = Nil]
    /\ sent' = [sent EXCEPT ![p] = {}]
    /\ sequential' = FALSE
    /\ UNCHANGED <<limits, poolconfig, clients, nextclientid, nextsessionid, clients_mu,
                   dialing, gateopen, releasing, handles, closevars, host, dialchan,
                   block, err, entered, dials>>
    /\ ticket' = [ticket EXCEPT ![p] = 0]
    /\ UNCHANGED retids

\* Pool.Close: p.clients_mu.Lock() (the unlock is deferred to the return)
CloseLock ==
    /\ cpc = "idle"
    /\ ncloses < limits.closes
    /\ clients_mu = Unlocked
    /\ clients_mu' = Closer
    /\ cpc' = "locked"
    /\ ncloses' = ncloses + 1
    /\ sequential' = FALSE
    /\ UNCHANGED <<limits, poolconfig, clients, nextclientid, nextsessionid, dialing, gateopen,
                   conns, releasing, handles, pc, host, dialchan, sessionid, cl, block,
                   err, entered, dials, sent>>
    /\ UNCHANGED <<ticket, retids>>

\* CloseAll without `delete(p.clients, host)`: the closed clients stay registered
CloseAll_NoDelete ==
    /\ cpc = "locked"
    /\ conns' = [t \in Transports |->
                    IF \E h \in Hosts : t \in Range(clients[h])
                    THEN [conns[t] EXCEPT !.closed = TRUE] ELSE conns[t]]
    /\ clients_mu' = Unlocked
    /\ cpc' = "idle"
    /\ UNCHANGED <<limits, poolconfig, clients, nextclientid, nextsessionid, dialing,
                   gateopen, releasing, handles, ncloses, pc, host, dialchan, sessionid,
                   cl, block, err, entered, dials, sent, sequential>>
    /\ UNCHANGED <<ticket, retids>>

\* the range over p.clients with clients_mu held: close every client of every
\* host and delete the host's entry; then Close returns and the deferred
\* Unlock runs. Nothing else reads p.clients while the lock is held, so the
\* iterations are taken together.
CloseAll ==
    /\ cpc = "locked"
    /\ conns' = [t \in Transports |->
                    IF \E h \in Hosts : t \in Range(clients[h])
                    THEN [conns[t] EXCEPT !.closed = TRUE] ELSE conns[t]]
    /\ clients' = [h \in Hosts |-> <<>>]
    /\ clients_mu' = Unlocked
    /\ cpc' = "idle"
    /\ UNCHANGED <<limits, poolconfig, nextclientid, nextsessionid, dialing, gateopen,
                   releasing, handles, ncloses, pc, host, dialchan, sessionid, cl,
                   block, err, entered, dials, sent, sequential>>
    /\ UNCHANGED <<ticket, retids>>

Next ==
    \/ \E p \in Procs, h \in Hosts : Enter(p, h)
    \/ \E p \in Procs : Retry(p)
    \/ \E p \in Procs : WaitGate(p)
    \/ \E p \in Procs : Scan(p)
    \/ \E p \in Procs : BlockSend(p)
    \/ \E p \in Procs : InstallGate(p)
    \/ \E p \in Procs : DialOk(p)
    \/ \E p \in Procs : DialFail(p)
    \/ \E p \in Procs : Register(p)
    \/ \E p \in Procs : ReleaseGate(p)
    \/ \E p \in Procs : Get(p)
    \/ \E p \in Procs : GetSFTP(p)
    \/ \E p \in Procs : OpenErr(p)
    \/ \E p \in Procs : forward(p)
    \/ \E t \in Transports : SessionPut(t)
    \/ \E t \in Transports : SFTPSessionPut(t)
    \/ \E t \in Transports : Release(t)
    \/ \E t \in Transports : SessionClose(t)
    \/ CloseLock
    \/ CloseAll

Spec == Init /\ [][Next]_vars

SpecRace == InitRace /\ [][Next]_vars

SpecLife == InitLife /\ [][Next]_vars

SpecOrder == InitOrder /\ [][Next]_vars

\* What the Go runtime guarantees the goroutines of get_client and Pool.Close: a
\* goroutine that can run does run, and one that waits for clients_mu gets it
\* (sync.Mutex hands the lock to a waiter that has waited long). Nothing is
\* assumed of ssh.Dial, of the callers' Put, or of new calls being made.
Fairness ==
    /\ \A p \in Procs :
          /\ WF_vars(Retry(p)) /\ WF_vars(WaitGate(p)) /\ WF_vars(InstallGate(p))
          /\ SF_vars(Scan(p)) /\ SF_vars(Register(p))
          /\ WF_vars(ReleaseGate(p))
    /\ WF_vars(CloseAll)

SpecGate == InitGate /\ [][Next]_vars /\ Fairness

\* ------------------------------------------------------------- claims
\* the handles of transport t that were returned and not yet Put
Outstanding(t) == handles[t].open + handles[t].closed

\* C1 (slot bound): for every host and every transport registered for it, the
\* number of handles returned by Get/GetSFTP and not yet Put is at most the
\* effective MaxSessions.
C1_SlotBound ==
    \A h \in Hosts : \A t \in Range(clients[h]) :
        Outstanding(t) <= MaxS /\ conns[t].cap = MaxS

\* a registered transport with more than one slot, all of them held by handles
C1_Witness ==
    \E h \in Hosts : \E t \in Range(clients[h]) : MaxS > 1 /\ Outstanding(t) = MaxS

\* C2 (connection bound): no host ever has more than the effective
\* MaxConnections transports in clients.
C2_ConnectionBound == \A h \in Hosts : Len(clients[h]) <= MaxC

\* the goroutines that hold the dial gate of host h and are inside ssh.Dial
Dialers(h) == {p \in Procs : host[p] = h /\ pc[p] = "dial"}

\* C3 (single dial): per host at most one goroutine is between installing the
\* gate and the end of its ssh.Dial, and a caller that saw the host's gate goes
\* on only when the dial behind that gate is over.
C3_SingleDial ==
    /\ [](\A h \in Hosts : Cardinality(Dialers(h)) <= 1)
    /\ [][\A p \in Procs :
            (pc[p] = "waitgate" /\ pc'[p] # "waitgate")
                => ~\E q \in Procs : pc[q] = "dial" /\ dialchan[q] = dialchan[p]]_vars

\* one goroutine is dialing a host and another waits on the gate it installed
C3_Witness ==
    \E p, q \in Procs :
        /\ pc[p] = "dial" /\ pc[q] = "waitgate"
        /\ host[p] = host[q] /\ dialchan[q] = dialchan[p]

\* no call is in flight, no handle is outstanding and no deferred release is pending
AllIdle == \A p \in Procs : Idle(p)
Quiescent ==
    AllIdle /\ \A t \in Transports : Outstanding(t) = 0 /\ releasing[t] = 0

Saturated(h) ==
    /\ Len(clients[h]) >= MaxC
    /\ \A t \in Range(clients[h]) : conns[t].sessions = conns[t].cap

\* C5 (saturation blocks): a Get that looks at a saturated host neither returns
\* a transport nor goes on to dial: it blocks on the slot semaphores.
C5_SaturationBlocks ==
    [][\A p \in Procs :
         (pc[p] = "scan" /\ Saturated(host[p]) /\ pc'[p] # "scan")
             => pc'[p] = "block"]_vars

\* a token of t's channel can still be received: there is room already, or a
\* deferred release is pending, or a handle on t is still to be Put, or a call
\* in flight holds a reservation on t
Releasable(t) ==
    \/ CanSend(conns, t)
    \/ releasing[t] > 0
    \/ Outstanding(t) > 0
    \/ \E q \in Procs : pc[q] \in {"register", "relgate", "open", "openerr"} /\ cl[q] = t

\* C6 (liveness of acquisition), in the form a finite run refutes: a caller
\* waiting on a dial gate has a dialer behind the gate, and a caller blocked on
\* its snapshot has a slot in it that can still be freed.
C6_NoCallerStuck ==
    \A p \in Procs :
        /\ (pc[p] = "waitgate" /\ dialchan[p] \in gateopen)
               => \E q \in Procs : pc[q] \in {"dial", "register", "relgate"}
                                   /\ dialchan[q] = dialchan[p]
        /\ pc[p] = "block" => \E t \in Range(block[p]) : Releasable(t)

\* C7 (reuse): a single sequential caller on a cold pool that has made fewer
\* than MaxSessions calls to a host, each Get followed by its Put, has dialed
\* the host once and finds one transport registered for it, whether or not the
\* deferred releases have run.
C7_Reuse ==
    \A h \in Hosts :
        (sequential /\ entered[h] >= 1 /\ entered[h] < MaxS)
            => /\ dials[h] <= 1 /\ Len(clients[h]) <= 1
               /\ AllIdle => dials[h] = 1 /\ Len(clients[h]) = 1

\* the sequential caller's second Get has returned on the one transport while
\* the release of its first Put is still pending
C7_Witness ==
    /\ sequential /\ AllIdle /\ entered["h1"] = 2 /\ MaxS > 2
    /\ clients["h1"] = <<1>> /\ releasing[1] = 1 /\ handles[1].open = 1

\* C8 (session-open failure): the transport on which the open is attempted is
\* one this call reserved a slot on and the slot is still there; when the open
\* has failed the call takes exactly that one token back, touches no other
\* transport, and returns without a handle.
C8_OpenFailure ==
    /\ [](\A p \in Procs :
            pc[p] \in {"open", "openerr"} => cl[p] \in sent[p] /\ conns[cl[p]].sessions > 0)
    /\ [][\A p \in Procs :
            (pc[p] = "openerr" /\ pc'[p] # "openerr")
                => /\ pc'[p] = "idle"
                   /\ handles' = handles
                   /\ conns'[cl[p]].sessions = conns[cl[p]].sessions - 1
                   /\ \A t \in Transports \ {cl[p]} : conns'[t] = conns[t]]_vars

\* the session open has failed on a transport the call holds a slot of
C8_Witness == \E p \in Procs : pc[p] = "openerr" /\ cl[p] \in sent[p]

\* C9 (dial failure): the call whose dial failed holds the gate and no slot; it
\* returns the error without another dial, with the host's entry removed from
\* dialing and the signal closed, and changes neither clients nor any channel.
C9_DialFailure ==
    /\ [](\A p \in Procs :
            (pc[p] = "relgate" /\ err[p])
                => /\ sent[p] = {} /\ cl[p] = Nil
                   /\ dialing[host[p]] = dialchan[p] /\ dialchan[p] \in gateopen)
    /\ [][\A p \in Procs :
            /\ (pc[p] = "dial" /\ err'[p])
                   => pc'[p] = "relgate" /\ clients' = clients /\ conns' = conns
            /\ (pc[p] = "relgate" /\ err[p] /\ pc'[p] # "relgate")
                   => /\ pc'[p] = "idle" /\ dials' = dials /\ handles' = handles
                      /\ dialing'[host[p]] = Nil /\ dialchan[p] \notin gateopen'
                      /\ clients' = clients /\ conns' = conns]_vars

\* a dial has failed and its caller is about to release the gate
C9_Witness == \E p \in Procs : pc[p] = "relgate" /\ err[p]

\* C10 (Close returns the session to the pool): session.Close() on a handle
\* frees the slot the handle holds or starts its deferred release.
C10_CloseReturnsSlot ==
    [][\A t \in Transports :
         handles'[t].closed > handles[t].closed
             => releasing'[t] > releasing[t] \/ conns'[t].sessions < conns[t].sessions]_vars

\* C11 (transport lifetime): a step that closes a transport registered in
\* clients is the step of Pool.Close that closes them all; no other operation
\* closes a transport that is still registered.
C11_ClosedOnlyByPoolClose ==
    [][\A h \in Hosts : \A t \in Range(clients[h]) :
         (~conns[t].closed /\ conns'[t].closed) => (cpc = "locked" /\ cpc' = "idle")]_vars

\* the transports that are in clients, for any host
Registered == UNION {Range(clients[h]) : h \in Hosts}

\* C12 (Close postcondition): when Pool.Close returns and no Get/GetSFTP is in
\* flight, clients is empty for every host and every transport ever built is
\* closed; Close closes the registered transports and no other, so a Close that
\* finds nothing registered closes nothing.
C12_ClosePostcondition ==
    [][(cpc = "locked" /\ cpc' = "idle")
         => /\ \A t \in Transports \ Registered : conns'[t] = conns[t]
            /\ Registered = {} => conns' = conns
            /\ AllIdle => /\ \A h \in Hosts : clients'[h] = <<>>
                          /\ \A t \in Transports : conns'[t].closed]_vars

\* Pool.Close is called a second time, after it closed a transport, and finds
\* nothing registered
C12_Witness ==
    /\ ncloses = 2 /\ cpc = "locked" /\ AllIdle
    /\ Registered = {} /\ \E t \in Transports : conns[t].closed

\* C13 (release never blocks): every deferred release that Put has started, and
\* every handle still to be Put, has a token of its own in the transport's
\* sessions channel, so the receive of a release never waits; also on a
\* transport that Pool.Close has closed.
C13_ReleaseNeverBlocks ==
    \A t \in Transports : releasing[t] + Outstanding(t) <= conns[t].sessions

\* after Pool.Close a release is pending on a closed transport and another of
\* its handles is still to be Put
C13_Witness ==
    \E t \in Transports :
        /\ ncloses > 0 /\ cpc = "idle" /\ conns[t].closed
        /\ releasing[t] > 0 /\ Outstanding(t) > 0

\* the session ids of the calls in flight that have been given one
InFlightIds == {sessionid[p] : p \in {q \in Procs : sessionid[q] # 0}}

\* the session ids in the handles returned so far
ReturnedIds == {retids[i] : i \in {j \in DOMAIN retids : retids[j] # 0}}

\* C14 as stated (session ids in the order of entry): of two calls that
\* returned a handle, the one that entered Get/GetSFTP first has the smaller id.
C14_IdsInEntryOrder ==
    \A a, b \in DOMAIN retids :
        (a < b /\ retids[a] # 0 /\ retids[b] # 0) => retids[a] < retids[b]

\* C14 as amended (session ids in the order of the first locked section): the
\* ids in returned handles are pairwise distinct; a call takes its id in its
\* first critical section under clients_mu, one more than every id taken before,
\* and keeps it across gate waits and retries until it returns.
C14_IdsDistinct ==
    /\ [](/\ \A a, b \in DOMAIN retids :
                (a # b /\ retids[a] # 0) => retids[a] # retids[b]
          /\ \A p, q \in Procs : (p # q /\ sessionid[p] # 0) => sessionid[p] # sessionid[q]
          /\ InFlightIds \cap ReturnedIds = {}
          /\ \A i \in InFlightIds \cup ReturnedIds : i <= nextsessionid)
    /\ [][\A p \in Procs :
            /\ (sessionid[p] = 0 /\ sessionid'[p] # 0)
                   => /\ pc[p] = "scan"
                      /\ \A i \in InFlightIds \cup ReturnedIds : i < sessionid'[p]
            /\ (sessionid[p] # 0 /\ pc'[p] # "idle") => sessionid'[p] = sessionid[p]
            /\ (ticket[p] # 0 /\ retids'[ticket[p]] # 0)
                   => retids'[ticket[p]] = sessionid[p]]_vars

\* two calls have returned handles, and the one that entered first has the
\* larger id
C14_Witness ==
    \E a, b \in DOMAIN retids : a < b /\ retids[a] > retids[b] /\ retids[b] > 0

\* C15 (one slot per acquisition): when get_client has returned a transport,
\* the call has sent a token to that transport and to no other.
C15_OneSlotPerCall ==
    \A p \in Procs : pc[p] = "open" => sent[p] = {cl[p]}

\* the first client of the list cs, in insertion order, whose channel has room
FirstFree(cs, cn) ==
    LET I == {i \in 1..Len(cs) : CanSend(cn, cs[i])}
    IN IF I = {} THEN Nil ELSE cs[CHOOSE i \in I : \A j \in I : i <= j]

C17_NoIOUnderLock ==
    /\ [](clients_mu # Unlocked => clients_mu = Closer /\ cpc = "locked")
    /\ [][(cpc = "locked" /\ cpc' = "idle")
             => \A t \in Transports : conns'[t].closed = conns[t].closed]_vars

\* the dial behind the gate that p waits on is over: no goroutine holding that
\* gate is inside ssh.Dial
DialOver(p) == ~\E q \in Procs : pc[q] = "dial" /\ dialchan[q] = dialchan[p]

\* C18 (gate wake-up): a caller waiting on a dial gate whose dial is over,
\* with success or with an error, eventually goes on; no waiter stays on a
\* channel that is never closed.
C18_GateWakeUp ==
    \A p \in Procs : (pc[p] = "waitgate" /\ DialOver(p)) ~> (pc[p] # "waitgate")

\* a caller waits on a gate that is still open while the installer's dial has
\* failed and the gate is about to be released
C18_Witness ==
    \E p, q \in Procs :
        /\ pc[p] = "waitgate" /\ dialchan[p] \in gateopen
        /\ pc[q] = "relgate" /\ err[q] /\ dialchan[q] = dialchan[p]

\* C19 (publish before release): from the end of a successful dial to the
\* release of the gate the caller's gate stays installed and open and the new
\* transport holds the caller's slot; when the gate is about to be released the
\* transport is in clients[host], unless Pool.Close has emptied it; and a waiter
\* goes on only when the holder of its gate is past the append.
C19_PublishBeforeRelease ==
    /\ [](\A p \in Procs :
            (pc[p] \in {"register", "relgate"} /\ ~err[p])
                => /\ dialing[host[p]] = dialchan[p] /\ dialchan[p] \in gateopen
                   /\ cl[p] \in sent[p] /\ conns[cl[p]].sessions >= 1
                   /\ (pc[p] = "relgate" /\ ncloses = 0)
                          => cl[p] \in Range(clients[host[p]]))
    /\ [][\A p \in Procs :
            (pc[p] = "waitgate" /\ pc'[p] # "waitgate")
                => ~\E q \in Procs : /\ pc[q] \in {"dial", "register", "relgate"}
                                      /\ dialchan[q] = dialchan[p]]_vars

\* the dialed transport is registered with the dialer's slot on it, the gate is
\* not yet released and another caller waits on it
C19_Witness ==
    \E p, q \in Procs :
        /\ pc[p] = "relgate" /\ ~err[p] /\ ncloses = 0
        /\ cl[p] \in Range(clients[host[p]])
        /\ pc[q] = "waitgate" /\ dialchan[q] = dialchan[p]

\* C20 (shutdown is final): once Pool.Close has returned, nothing is registered
\* in clients any more, and when no call is in flight every transport ever
\* dialed is closed.
C20_ShutdownFinal ==
    (ncloses > 0 /\ cpc = "idle")
        => /\ Registered = {}
           /\ AllIdle => \A t \in Transports : conns[t].closed

====
